---- MODULE Spec2Model ----
(***************************************************************************)
(* Admin key resolution and account classification of the Stellar admin   *)
(* checker: Runner::new, Runner::find_key, Runner::is_hot_wallet and the  *)
(* helpers of storage_helper.rs and horizon_helper.rs, driven as main.rs  *)
(* drives them.  The RPC and Horizon collaborators are the environment:    *)
(* every response they can give is a nondeterministic choice.              *)
(*                                                                         *)
(* Text is a sequence of byte values ("admin" is <<97,100,109,105,110>>).  *)
(* A u64 is held as its two's-complement residue: n >= 0 stands for n and  *)
(* n < 0 stands for 2^64 + n, with n in -2^63..2^63-1, so that u64::MAX is *)
(* -1 and wrapping subtraction is integer subtraction reduced to that      *)
(* range.                                                                  *)
(***************************************************************************)
EXTENDS Integers, Sequences, FiniteSets, TLC

VARIABLES
    pc,            \* position of main: which call is awaited / what runs next
    rpc_url_ok,    \* input: Client::new accepts the RPC URL
    target,        \* input: the address text given as contract id or admin
    key,           \* input: the admin storage key text
    overflow_checks, \* build profile: arithmetic overflow panics (TRUE) or wraps
    keys,          \* Runner.keys
    instance_storage, \* find_key: Vec<ScMapEntry> of the contract instance
    ledger_entries,   \* persistent_storage_lookup: the batch response
    admin_val,     \* find_key: the ScVal handed to decode_admin_value
    address_type,  \* main: what find_key returned
    body,          \* check_if_centralized: the decoded AccountData
    account_type,  \* is_hot_wallet: what check_if_centralized returned
    results,       \* get_all_txs_for_account: accumulated records
    txs,           \* get_all_txs_for_account: the page just fetched
    next_url,      \* get_all_txs_for_account: cursor of the next request
    min_ledger_diff, \* is_hot_wallet: what tx_frequency_for_account returned
    fetched,       \* history: the pages Horizon returned, in order
    links,         \* history: the "next" link each of those pages carried
    calls,         \* history: every collaborator call so far, with its status
    outcome        \* how main ended

vars == <<pc, rpc_url_ok, target, key, overflow_checks, keys, instance_storage,
          ledger_entries, admin_val, address_type, body, account_type, results,
          txs, next_url, min_ledger_diff, fetched, links, calls, outcome>>

-----------------------------------------------------------------------------
(* Bounds *)

MaxKeyLen == 2
MaxEntries == 2
MaxSigners == 2
MaxShort == 2
MaxPages == 2
MaxRequests == 3

-----------------------------------------------------------------------------
(* Values *)

None == [t |-> "None"]
Some(x) == [t |-> "Some", v |-> x]

Ok(x) == [kind |-> "ok", val |-> x]
Err(e) == [kind |-> "err", val |-> e]
Panic == [kind |-> "panic", val |-> "unwrap"]
Running == [kind |-> "none", val |-> "none"]

\* account_type.rs: AccountType
Contract == [t |-> "Contract"]
Multisig(i, n) == [t |-> "Multisig", threshold |-> i, total |-> n]
Deactivated == [t |-> "Deactivated"]
HotWallet == [t |-> "HotWallet"]
MPC == [t |-> "MPC"]

\* storage_helper.rs: AddressType
EOA(id) == [t |-> "EOA", id |-> id]
AddressContract == [t |-> "Contract", id |-> "-"]

\* stellar_xdr ScVal, as far as the program tells its variants apart.
\* The enum-variant key ScVal::Vec([ScVal::Symbol(s)]) is the tag "VecSymbol".
ScSymbol(s) == [t |-> "Symbol", s |-> s]
ScString(s) == [t |-> "String", s |-> s]
ScVecSymbol(s) == [t |-> "VecSymbol", s |-> s]
ScAddressAccount(id) == [t |-> "Address", kind |-> "Account", id |-> id]
ScAddressContract(id) == [t |-> "Address", kind |-> "Contract", id |-> id]
ScU32(n) == [t |-> "U32", kind |-> "U32", id |-> "-"]

-----------------------------------------------------------------------------
(* Key Variant Generator: runner.rs mutate_input, storage_helper.rs        *)

to_ascii_uppercase(c) == IF c \in 97..122 THEN c - 32 ELSE c
to_ascii_lowercase(c) == IF c \in 65..90 THEN c + 32 ELSE c

str_to_ascii_uppercase(s) == [i \in 1..Len(s) |-> to_ascii_uppercase(s[i])]
str_to_ascii_lowercase(s) == [i \in 1..Len(s) |-> to_ascii_lowercase(s[i])]

mutate_input(k) ==
    LET capitalized == [i \in 1..Len(k) |->
                          IF i = 1 THEN to_ascii_uppercase(k[i])
                                   ELSE to_ascii_lowercase(k[i])]
    IN  <<str_to_ascii_lowercase(k), str_to_ascii_uppercase(k), capitalized>>

\* StringM::from_str: the text is unescaped as escape_bytes::unescape does.
\* A backslash starts an escape: \0, \t, \n, \r and \\ stand for the bytes
\* 0, 9, 10, 13 and 92, \xHH for the byte with the two hex digits HH; a
\* backslash followed by anything else, or by nothing, is an error.
Backslash == 92

\* The byte a one-letter escape stands for: 0, t, n, r, backslash.
EscapedByte(c) ==
    CASE c = 48 -> 0
      [] c = 116 -> 9
      [] c = 110 -> 10
      [] c = 114 -> 13
      [] c = Backslash -> Backslash

\* The value of a hex digit, -1 for any other byte.
HexDigit(c) ==
    IF c \in 48..57 THEN c - 48
    ELSE IF c \in 97..102 THEN c - 87
    ELSE IF c \in 65..70 THEN c - 55
    ELSE 0 - 1

RECURSIVE unescape(_)
unescape(s) ==
    IF s = <<>> THEN Ok(<<>>)
    ELSE IF s[1] # Backslash
         THEN LET rest == unescape(Tail(s))
              IN  IF rest.kind = "ok" THEN Ok(<<s[1]>> \o rest.val) ELSE rest
    ELSE IF Len(s) < 2 THEN Err("Invalid")
    ELSE IF s[2] \in {48, 116, 110, 114, Backslash}
         THEN LET rest == unescape(SubSeq(s, 3, Len(s)))
              IN  IF rest.kind = "ok" THEN Ok(<<EscapedByte(s[2])>> \o rest.val) ELSE rest
    ELSE IF s[2] = 120 /\ Len(s) >= 4 /\ HexDigit(s[3]) >= 0 /\ HexDigit(s[4]) >= 0
         THEN LET rest == unescape(SubSeq(s, 5, Len(s)))
              IN  IF rest.kind = "ok"
                  THEN Ok(<<16 * HexDigit(s[3]) + HexDigit(s[4])>> \o rest.val)
                  ELSE rest
    ELSE Err("Invalid")

StringM_from_str(s) == unescape(s)

get_enum_variant_key(k) ==
    LET m == StringM_from_str(k)
    IN  IF m.kind = "ok" THEN Ok(ScVecSymbol(m.val)) ELSE Panic

format_key(k, key_type) ==
    LET m == StringM_from_str(k)
    IN  CASE key_type = "EnumVariant" -> get_enum_variant_key(k)
          [] key_type = "Symbol" -> IF m.kind = "ok" THEN Ok(ScSymbol(m.val)) ELSE Panic
          [] key_type = "String" -> IF m.kind = "ok" THEN Ok(ScString(m.val)) ELSE Panic

\* Fault variant of possible_keys: the String shape is never inserted.
possible_keys_no_string(ks) ==
    LET fmt == {format_key(ks[i], ty) : i \in 1..Len(ks), ty \in {"EnumVariant", "Symbol"}}
    IN  IF \E f \in fmt : f.kind = "panic" THEN Panic
        ELSE Ok({f.val : f \in fmt})

\* The loop inserts the three shapes of every key; the first unwrap that
\* fails aborts, so the set exists only if every format_key succeeds.
possible_keys(ks) ==
    LET fmt == {format_key(ks[i], ty) :
                  i \in 1..Len(ks), ty \in {"EnumVariant", "String", "Symbol"}}
    IN  IF \E f \in fmt : f.kind = "panic" THEN Panic
        ELSE Ok({f.val : f \in fmt})

-----------------------------------------------------------------------------
(* Inputs and collaborator responses the model draws from *)

Me == "GADMIN"
Other == "GOTHER"

\* "admin", the default of the --key option (config.rs), and a lone backslash,
\* which StringM::from_str rejects.
AdminKey == <<97, 100, 109, 105, 110>>
BadKey == <<Backslash>>
\* bytes a, d, n, A, 0, 1, backslash
KeyAlphabet == {97, 100, 110, 65, 48, 49, Backslash}

RECURSIVE SeqsUpTo(_, _)
SeqsUpTo(S, n) ==
    IF n = 0 THEN {<<>>}
    ELSE LET shorter == SeqsUpTo(S, n - 1)
         IN  shorter \cup {Append(s, x) : s \in {t \in shorter : Len(t) = n - 1}, x \in S}

KeyInputs == SeqsUpTo(KeyAlphabet, MaxKeyLen) \cup {AdminKey}

Targets == {[kind |-> "Account", id |-> Me],
            [kind |-> "Contract", id |-> "CTARGET"],
            [kind |-> "Malformed", id |-> "-"]}

\* Storage values an entry can hold.
StorageVals == {ScAddressAccount(Me), ScAddressContract("CADMIN"), ScU32(7)}

\* Keys an instance-storage entry can carry: two variants of "admin" and a
\* key that is no variant of it.
OwnerKey == <<111, 119, 110, 101, 114>>
InstanceKeys == {ScSymbol(AdminKey), ScVecSymbol(str_to_ascii_uppercase(AdminKey)),
                 ScSymbol(OwnerKey)}
ScMapEntries == [key : InstanceKeys, val : StorageVals]

\* A LedgerEntryResult of get_ledger_entries, by what its xdr decodes to.
LedgerEntryResults ==
    {[xdr |-> "ContractData", val |-> v] : v \in StorageVals}
    \cup {[xdr |-> "Account", val |-> ScU32(0)], [xdr |-> "Undecodable", val |-> ScU32(0)]}

\* Signer weights and low thresholds (u8).
WeightValues == {0, 1, 5, 10, 200, 255}
ThresholdValues == {0, 1, 5, 15, 255}

\* Horizon transaction records.  A paging token names one transaction, so a
\* record is determined by its token.
TxRecord(l, tok, src, fee) ==
    [ledger |-> l, paging_token |-> tok, source_account |-> src, fee_account |-> fee]
Tx100 == TxRecord(100, 1000, Me, Me)
Tx105 == TxRecord(105, 1050, Other, Me)
Tx110 == TxRecord(110, 1100, Other, Other)
Tx260 == TxRecord(260, 2600, Me, Other)
Tx272 == TxRecord(272, 2720, Me, Me)
Tx285 == TxRecord(285, 2850, Me, Me)
\* The two ends of u64: ledger 0 and ledger u64::MAX (the residue -1).
Tx0 == TxRecord(0, 0, Me, Me)
TxMax == TxRecord(0 - 1, 9999, Me, Me)
TxUniverse == {Tx0, Tx100, Tx105, Tx110, Tx260, Tx272, Tx285, TxMax}

\* The page size asked of Horizon (limit=200) and tested by the fetch loop.
PageLimit == 200

\* A full page: `head`, then older transactions of one ledger whose source
\* is `src`, then Tx100 and Tx105, PageLimit records in all.
FullPage(head, src) ==
    LET n == PageLimit - Len(head) - 2
    IN  head \o [i \in 1..n |-> TxRecord(Tx100.ledger - 1, i, src, Other)]
             \o <<Tx100, Tx105>>
FullPages == {FullPage(<<>>, Other), FullPage(<<Tx100, Tx105>>, Me)}
ShortPages == SeqsUpTo(TxUniverse, MaxShort)

\* The base transactions URL of get_txs_from_cursor, asked when there is no
\* cursor yet.
FirstPageUrl == "transactions?limit=200"

\* _links.next.href is any text: two cursor links and the base URL itself.
NextLinks == {"cursor_a", "cursor_b", FirstPageUrl}

-----------------------------------------------------------------------------
(* Storage Resolver: runner.rs *)

\* Fault variant of find_entry: the last matching entry wins.
find_entry_last(storage, ks) ==
    LET hits == {i \in 1..Len(storage) : storage[i].key \in ks}
    IN  IF hits = {} THEN None
        ELSE Some(storage[CHOOSE i \in hits : \A j \in hits : j <= i])

\* instance_storage.iter().find(|entry| self.keys.contains(&entry.key))
find_entry(storage, ks) ==
    LET hits == {i \in 1..Len(storage) : storage[i].key \in ks}
    IN  IF hits = {} THEN None
        ELSE Some(storage[CHOOSE i \in hits : \A j \in hits : i <= j])

\* Fault variant of persistent_storage_lookup: the first entry is taken
\* without the test for more than one.
persistent_storage_lookup_first(result) ==
    IF result.t = "Ok"
    THEN IF result.entries.t = "None" THEN Panic
         ELSE LET entries == result.entries.v
              IN  IF Len(entries) = 0 THEN Err("AdminNotFound")
                  ELSE IF entries[1].xdr = "Undecodable" THEN Panic
                  ELSE IF entries[1].xdr = "ContractData" THEN Ok(entries[1].val)
                  ELSE Err("AdminNotFound")
    ELSE Err("PersistentStorageFailure")

\* `result` is what rpc.get_ledger_entries answered: Err, or Ok with
\* entries: Option<Vec<LedgerEntryResult>>.  Both unwraps abort the process.
persistent_storage_lookup(result) ==
    IF result.t = "Ok"
    THEN IF result.entries.t = "None" THEN Panic
         ELSE LET entries == result.entries.v
              IN  IF Len(entries) = 0 THEN Err("AdminNotFound")
                  ELSE IF Len(entries) # 1 THEN Err("MultipleAdminsFound")
                  ELSE IF entries[1].xdr = "Undecodable" THEN Panic
                  ELSE IF entries[1].xdr = "ContractData" THEN Ok(entries[1].val)
                  ELSE Err("AdminNotFound")
    ELSE Err("PersistentStorageFailure")

\* storage_helper.rs
wrap_eoa(id) == EOA(id)

\* Fault variant of decode_admin_value: every address is wrapped as an EOA.
decode_admin_value_any_address(val) ==
    IF val.t # "Address" THEN Err("WrongStorageType")
    ELSE Ok(wrap_eoa(val.id))

decode_admin_value(val) ==
    IF val.t # "Address" THEN Err("WrongStorageType")
    ELSE IF val.kind = "Account" THEN Ok(wrap_eoa(val.id))
    ELSE Ok(AddressContract)

-----------------------------------------------------------------------------
(* Account Classifier: horizon_helper.rs check_if_centralized *)

U8Modulus == 256

SeqMax(ws) == IF ws = <<>> THEN 0 ELSE CHOOSE m \in {ws[i] : i \in 1..Len(ws)} :
                                          \A i \in 1..Len(ws) : ws[i] <= m

\* weights.sort_unstable_by(|a, b| b.cmp(a))
RECURSIVE InsertDesc(_, _)
InsertDesc(x, sorted) ==
    IF sorted = <<>> THEN <<x>>
    ELSE IF x >= sorted[1] THEN <<x>> \o sorted
    ELSE <<sorted[1]>> \o InsertDesc(x, Tail(sorted))

RECURSIVE SortDesc(_)
SortDesc(ws) == IF ws = <<>> THEN <<>> ELSE InsertDesc(ws[1], SortDesc(Tail(ws)))

\* The for loop over 0..total_signers; i is the 1-based index here.
\* total_weight is a u8: the addition panics or wraps with the build profile.
\* The answer is Multisig(i as u8 + 1, total_signers as u8) for the 0-based
\* index: both casts truncate, and the u8 addition panics or wraps as well.
RECURSIVE multisig_loop(_, _, _, _, _, _)
multisig_loop(weights, i, total_weight, low_threshold, total_signers, oc) ==
    IF i > total_signers THEN Ok(Deactivated)
    ELSE LET sum == total_weight + weights[i]
         IN  IF sum >= U8Modulus /\ oc THEN Panic
             ELSE LET tw == sum % U8Modulus
                  IN  IF tw >= low_threshold
                      THEN LET required == ((i - 1) % U8Modulus) + 1
                           IN  IF required >= U8Modulus /\ oc THEN Panic
                               ELSE Ok(Multisig(required % U8Modulus,
                                                total_signers % U8Modulus))
                      ELSE multisig_loop(weights, i + 1, tw, low_threshold,
                                         total_signers, oc)

\* Fault variant of check_if_centralized: greater-than in place of
\* greater-or-equal.
check_if_centralized_strict(b, oc) ==
    LET weights == b.signers
        max_weight == SeqMax(weights)
        total_signers == Cardinality({i \in 1..Len(weights) : weights[i] > 0})
    IN  IF max_weight = 0 THEN Ok(Deactivated)
        ELSE IF max_weight > b.low_threshold THEN Ok(HotWallet)
        ELSE multisig_loop(SortDesc(weights), 1, 0, b.low_threshold, total_signers, oc)

\* `b` is the parsed AccountData; `oc` the build's overflow checks.
check_if_centralized(b, oc) ==
    LET weights == b.signers
        max_weight == SeqMax(weights)
        total_signers == Cardinality({i \in 1..Len(weights) : weights[i] > 0})
    IN  IF max_weight = 0 THEN Ok(Deactivated)
        ELSE IF max_weight >= b.low_threshold THEN Ok(HotWallet)
        ELSE multisig_loop(SortDesc(weights), 1, 0, b.low_threshold, total_signers, oc)

-----------------------------------------------------------------------------
(* Transaction-Frequency Analyzer: horizon_helper.rs *)

U64Max == 0 - 1
\* a <= b on u64 residues
U64Le(a, b) == IF (a >= 0) = (b >= 0) THEN a <= b ELSE a >= 0

\* Fault variant of retain: the fee payer is not looked at.
retain_source_only(rs, account_id) == SelectSeq(rs, LAMBDA r : r.source_account = account_id)
\* results.retain(|r| r.source_account == account_id || r.fee_account == account_id)
retain(rs, account_id) ==
    SelectSeq(rs, LAMBDA r : r.source_account = account_id \/ r.fee_account = account_id)

\* Vec::dedup_by_key: drops a record whose key equals that of the record
\* kept just before it, which is the key of the record just before it.
dedup_marked(rs) ==
    [i \in 1..Len(rs) |->
        [r |-> rs[i],
         dup |-> i > 1 /\ rs[i].paging_token = rs[i - 1].paging_token]]

dedup_by_key(rs) ==
    LET kept == SelectSeq(dedup_marked(rs), LAMBDA m : ~m.dup)
    IN  [i \in 1..Len(kept) |-> kept[i].r]

\* The residue of an integer modulo 2^64, in -2^63..2^63-1.  A number of
\* small magnitude is its own residue and is returned as it is, so that the
\* powers are only formed for the numbers that need them.
U64Wrap(n) ==
    IF n >= 0 - 2^30 /\ n < 2^30 THEN n
    ELSE ((n + 2^63) % 2^64) - 2^63

\* r[1].ledger - r[0].ledger on u64, as a residue
U64Sub(a, b) == U64Wrap(a - b)

\* txs.windows(2).map(|r| r[1].ledger - r[0].ledger).min() on u64: a
\* subtraction below zero panics with overflow checks and wraps without.
min_of_windows(rs) ==
    LET diffs == {U64Sub(rs[i + 1].ledger, rs[i].ledger) : i \in 1..(Len(rs) - 1)}
    IN  CHOOSE m \in diffs : \A d \in diffs : U64Le(m, d)

\* tx_frequency_for_account, from the list get_all_txs_for_account returned.
frequency_of(rs, oc) ==
    IF Len(rs) < 2 THEN Ok(U64Max)
    ELSE IF oc /\ \E i \in 1..(Len(rs) - 1) : ~U64Le(rs[i].ledger, rs[i + 1].ledger)
         THEN Panic
         ELSE Ok(min_of_windows(rs))

HotWalletGap == 12

\* Fault variant of hot_wallet_verdict: less-than in place of less-or-equal.
hot_wallet_verdict_strict(diff) == IF U64Le(diff, HotWalletGap - 1) THEN HotWallet ELSE MPC
\* is_hot_wallet, the HotWallet arm
hot_wallet_verdict(diff) == IF U64Le(diff, HotWalletGap) THEN HotWallet ELSE MPC

-----------------------------------------------------------------------------
(* The program *)

NoVal == [t |-> "Null", kind |-> "Null", id |-> "-"]
NoAddress == [t |-> "Null", id |-> "-"]
NoBody == [signers |-> <<>>, low_threshold |-> 0]
NotAsked == [t |-> "NotAsked"]

Call(op, url, status) == [op |-> op, url |-> url, status |-> status]

InitLocals ==
    /\ pc = "new"
    /\ keys = {}
    /\ instance_storage = <<>>
    /\ ledger_entries = NotAsked
    /\ admin_val = NoVal
    /\ address_type = NoAddress
    /\ body = NoBody
    /\ account_type = Running
    /\ results = <<>>
    /\ txs = <<>>
    /\ next_url = None
    /\ min_ledger_diff = Running
    /\ fetched = <<>>
    /\ links = <<>>
    /\ calls = <<>>
    /\ outcome = Running

Init ==
    /\ rpc_url_ok \in BOOLEAN
    /\ target \in Targets
    /\ key \in {AdminKey, BadKey}
    /\ overflow_checks \in BOOLEAN
    /\ InitLocals

\* The key variant generator over every key text of the bounds.
InitKeys ==
    /\ rpc_url_ok = TRUE
    /\ target \in Targets
    /\ key \in KeyInputs
    /\ overflow_checks \in BOOLEAN
    /\ InitLocals

\* get_all_txs_for_account is entered: an account target whose signer stage
\* answered HotWallet.
InitPages ==
    /\ rpc_url_ok = TRUE
    /\ target = [kind |-> "Account", id |-> Me]
    /\ key = AdminKey
    /\ overflow_checks \in BOOLEAN
    /\ pc = "transactions"
    /\ keys = possible_keys(mutate_input(AdminKey)).val
    /\ instance_storage = <<>>
    /\ ledger_entries = NotAsked
    /\ admin_val = NoVal
    /\ address_type = wrap_eoa(Me)
    /\ body = NoBody
    /\ account_type = Ok(HotWallet)
    /\ results = <<>>
    /\ txs = <<>>
    /\ next_url = None
    /\ min_ledger_diff = Running
    /\ fetched = <<>>
    /\ links = <<>>
    /\ calls = <<Call("account", "-", "ok")>>
    /\ outcome = Running

Inputs == <<rpc_url_ok, target, key, overflow_checks>>
FindKeyLocals == <<instance_storage, ledger_entries, admin_val>>
TxLocals == <<results, txs, next_url, min_ledger_diff, fetched, links>>

\* main returns (Ok prints the classification) or the process aborts.
Finish(o) == pc' = "done" /\ outcome' = o

\* config.rs to_runner -> Runner::new: the fields are built in order, so a
\* bad URL or address is reported before the keys are generated.
New ==
    /\ pc = "new"
    /\ LET ks == possible_keys(mutate_input(key))
       IN  IF ~rpc_url_ok THEN Finish(Err("MalformedUrl")) /\ UNCHANGED keys
           ELSE IF target.kind = "Malformed"
                THEN Finish(Err("MalformedAddress")) /\ UNCHANGED keys
           ELSE IF ks.kind = "panic" THEN Finish(Panic) /\ UNCHANGED keys
           ELSE keys' = ks.val /\ pc' = "find_key" /\ UNCHANGED outcome
    /\ UNCHANGED <<Inputs, FindKeyLocals, address_type, body, account_type, TxLocals, calls>>

\* Runner::find_key up to its first await: an account target is the answer,
\* a contract target asks the RPC server for the contract instance.
FindKey ==
    /\ pc = "find_key"
    /\ IF target.kind = "Account"
       THEN address_type' = wrap_eoa(target.id) /\ pc' = "main_match"
       ELSE address_type' = address_type /\ pc' = "get_contract_instance"
    /\ UNCHANGED <<Inputs, keys, FindKeyLocals, body, account_type, TxLocals, calls, outcome>>

InstanceResponses ==
    {[t |-> "Err"], [t |-> "Ok", storage |-> None]}
    \cup {[t |-> "Ok", storage |-> Some(es)] : es \in SeqsUpTo(ScMapEntries, MaxEntries)}

\* Runner::get_contract_instance answers; find_key scans the entries and
\* either has the admin value or issues the persistent batch query.
GetContractInstance ==
    /\ pc = "get_contract_instance"
    /\ \E resp \in InstanceResponses :
         IF target.kind # "Contract"
         THEN Finish(Err("NotAContract"))
              /\ UNCHANGED <<instance_storage, admin_val, calls>>
         ELSE IF resp.t = "Err"
         THEN /\ calls' = Append(calls, Call("get_contract_instance", "-", "failed"))
              /\ Finish(Err("InstanceStorageFailure"))
              /\ UNCHANGED <<instance_storage, admin_val>>
         ELSE LET storage == IF resp.storage.t = "Some" THEN resp.storage.v ELSE <<>>
                  entry == find_entry(storage, keys)
              IN  /\ calls' = Append(calls, Call("get_contract_instance", "-", "ok"))
                  /\ instance_storage' = storage
                  /\ IF entry.t = "Some"
                     THEN admin_val' = entry.v.val /\ pc' = "decode"
                     ELSE admin_val' = admin_val /\ pc' = "get_ledger_entries"
                  /\ UNCHANGED outcome
    /\ UNCHANGED <<Inputs, keys, ledger_entries, address_type, body, account_type, TxLocals>>

LedgerEntriesResponses ==
    {[t |-> "Err", entries |-> None], [t |-> "Ok", entries |-> None]}
    \cup {[t |-> "Ok", entries |-> Some(es)] : es \in SeqsUpTo(LedgerEntryResults, MaxEntries)}

\* rpc.get_ledger_entries answers: the rest of persistent_storage_lookup.
GetLedgerEntries ==
    /\ pc = "get_ledger_entries"
    /\ \E resp \in LedgerEntriesResponses :
         LET r == persistent_storage_lookup(resp)
         IN  /\ ledger_entries' = resp
             /\ calls' = Append(calls, Call("get_ledger_entries", "-",
                                            IF resp.t = "Ok" THEN "ok" ELSE "failed"))
             /\ IF r.kind = "ok"
                THEN admin_val' = r.val /\ pc' = "decode" /\ UNCHANGED outcome
                ELSE admin_val' = admin_val /\ Finish(r)
    /\ UNCHANGED <<Inputs, keys, instance_storage, address_type, body, account_type, TxLocals>>

\* find_key's last line; its locals end with it when it returns Ok.
Decode ==
    /\ pc = "decode"
    /\ LET r == decode_admin_value(admin_val)
       IN  IF r.kind = "ok"
           THEN /\ address_type' = r.val
                /\ pc' = "main_match"
                /\ instance_storage' = <<>>
                /\ ledger_entries' = NotAsked
                /\ admin_val' = NoVal
                /\ UNCHANGED outcome
           ELSE Finish(r) /\ UNCHANGED <<address_type, FindKeyLocals>>
    /\ UNCHANGED <<Inputs, keys, body, account_type, TxLocals, calls>>

\* main's match on what find_key returned.  For an EOA is_hot_wallet starts
\* and check_if_centralized asks Horizon for the account.
MainMatch ==
    /\ pc = "main_match"
    /\ IF address_type.t = "EOA"
       THEN pc' = "account" /\ UNCHANGED outcome
       ELSE Finish(Ok(Contract))
    /\ UNCHANGED <<Inputs, keys, FindKeyLocals, address_type, body, account_type, TxLocals, calls>>

AccountResponses ==
    {[t |-> "FetchErr", body |-> NoBody], [t |-> "ParseErr", body |-> NoBody]}
    \cup {[t |-> "Ok", body |-> [signers |-> ws, low_threshold |-> th]] :
            ws \in SeqsUpTo(WeightValues, MaxSigners), th \in ThresholdValues}

\* Horizon answers the account request: the rest of check_if_centralized.
\* FetchErr is a transport error or a non-success status.
Account ==
    /\ pc = "account"
    /\ \E resp \in AccountResponses :
         IF resp.t = "FetchErr"
         THEN /\ calls' = Append(calls, Call("account", "-", "fetch_failed"))
              /\ Finish(Err("HorizonDataFetchFailure"))
              /\ UNCHANGED <<body, account_type>>
         ELSE IF resp.t = "ParseErr"
         THEN /\ calls' = Append(calls, Call("account", "-", "parse_failed"))
              /\ Finish(Err("HorizonDataParseFailure"))
              /\ UNCHANGED <<body, account_type>>
         ELSE LET r == check_if_centralized(resp.body, overflow_checks)
              IN  /\ calls' = Append(calls, Call("account", "-", "ok"))
                  /\ body' = resp.body
                  /\ account_type' = r
                  /\ IF r.kind = "ok"
                     THEN pc' = "is_hot_wallet" /\ UNCHANGED outcome
                     ELSE Finish(r)
    /\ UNCHANGED <<Inputs, keys, FindKeyLocals, address_type, TxLocals>>

\* is_hot_wallet's match on the signer-stage result: only HotWallet goes on
\* to tx_frequency_for_account, whose loop asks for the first page.
IsHotWallet ==
    /\ pc = "is_hot_wallet"
    /\ IF account_type.val.t = "HotWallet"
       THEN pc' = "transactions" /\ body' = NoBody /\ UNCHANGED outcome
       ELSE Finish(Ok(account_type.val)) /\ UNCHANGED body
    /\ UNCHANGED <<Inputs, keys, FindKeyLocals, address_type, account_type, TxLocals, calls>>

\* What Horizon can answer to a page request: a failure, or a page with its
\* "next" link.  The history is finite: after MaxPages - 1 full pages the
\* next page is short.  Every page carries the same link here; the links
\* Horizon can return are drawn from NextLinks by CursorResponses.
PageFailures ==
    {[t |-> "FetchErr", records |-> <<>>, next |-> "-"],
     [t |-> "ParseErr", records |-> <<>>, next |-> "-"]}
PageResponses ==
    {[t |-> "Ok", records |-> p, next |-> "cursor_a"] :
        p \in ShortPages \cup (IF Len(fetched) < MaxPages - 1 THEN FullPages ELSE {})}

\* Fault variant of RequestUrl: the cursor is ignored.
RequestUrl_base_only(cursor) == FirstPageUrl
\* get_txs_from_cursor: url_.unwrap_or(the base transactions URL)
RequestUrl(cursor) == IF cursor.t = "Some" THEN cursor.v ELSE FirstPageUrl

\* Fault variant of last_page: a full page ends the loop as well.
last_page_always(page) == Len(page) <= PageLimit
\* The loop's exit test on the page just fetched.
last_page(page) == Len(page) # PageLimit

\* What get_all_txs_for_account returns from the accumulated records.
all_txs(acc, account_id) == dedup_by_key(retain(acc, account_id))

\* Fault variant of PageFailed: the failure is taken for the end of the
\* history and the records received so far are analysed.
PageFailed_as_end(resp) ==
    /\ calls' = Append(calls, Call("transactions", RequestUrl(next_url), "fetch_failed"))
    /\ results' = all_txs(results, address_type.id)
    /\ min_ledger_diff' = Ok(U64Max)
    /\ Finish(Ok(hot_wallet_verdict(U64Max)))
    /\ UNCHANGED <<txs, next_url, fetched, links>>

\* A page request fails: `?` hands the error through get_all_txs_for_account,
\* tx_frequency_for_account and is_hot_wallet to main.
PageFailed(resp) ==
    /\ calls' = Append(calls, Call("transactions", RequestUrl(next_url),
                                   IF resp.t = "FetchErr" THEN "fetch_failed"
                                                          ELSE "parse_failed"))
    /\ Finish(Err(IF resp.t = "FetchErr" THEN "HorizonDataFetchFailure"
                                         ELSE "HorizonDataParseFailure"))
    /\ UNCHANGED TxLocals

\* A page arrives: one turn of the loop of get_all_txs_for_account and, on
\* the last page, everything up to main's return.
PageArrived(resp) ==
    LET acc == results \o resp.records
    IN  /\ calls' = Append(calls, Call("transactions", RequestUrl(next_url), "ok"))
        /\ fetched' = Append(fetched, resp.records)
        /\ links' = Append(links, resp.next)
        /\ txs' = resp.records
        /\ IF last_page(resp.records)
           THEN LET list == all_txs(acc, address_type.id)
                    diff == frequency_of(list, overflow_checks)
                IN  /\ results' = list
                    /\ min_ledger_diff' = diff
                    /\ next_url' = next_url
                    /\ IF diff.kind = "ok"
                       THEN Finish(Ok(hot_wallet_verdict(diff.val)))
                       ELSE Finish(diff)
           ELSE /\ results' = acc
                /\ next_url' = Some(resp.next)
                /\ UNCHANGED <<min_ledger_diff, pc, outcome>>

Transactions ==
    /\ pc = "transactions"
    /\ \/ \E resp \in PageFailures : PageFailed(resp)
       \/ \E resp \in PageResponses : PageArrived(resp)
    /\ UNCHANGED <<Inputs, keys, FindKeyLocals, address_type, body, account_type>>

Next ==
    \/ New
    \/ FindKey
    \/ GetContractInstance
    \/ GetLedgerEntries
    \/ Decode
    \/ MainMatch
    \/ Account
    \/ IsHotWallet
    \/ Transactions

Spec == Init /\ [][Next]_vars

\* The page loop alone.  Horizon answers every request, so the step that
\* receives the answer is always taken in the end.
PageSpec == InitPages /\ [][Transactions]_vars /\ WF_vars(Transactions)

KeySpec == InitKeys /\ [][New]_vars

\* The page loop over longer histories of small pages: up to MaxRequests
\* requests, each page with either of the next links.
CursorResponses ==
    {[t |-> "Ok", records |-> p, next |-> l] :
        p \in {s \in ShortPages : Len(s) <= 1}
               \cup (IF Len(fetched) < MaxRequests - 1 THEN {FullPage(<<>>, Other)} ELSE {}),
        l \in NextLinks}

CursorTransactions ==
    /\ pc = "transactions"
    /\ \/ \E resp \in PageFailures : PageFailed(resp)
       \/ \E resp \in CursorResponses : PageArrived(resp)
    /\ UNCHANGED <<Inputs, keys, FindKeyLocals, address_type, body, account_type>>

CursorSpec == InitPages /\ [][CursorTransactions]_vars

-----------------------------------------------------------------------------
(* Properties *)

\* The persistent batch query answered with an entry list.
EntriesReturned == ledger_entries.t = "Ok" /\ ledger_entries.entries.t = "Some"

\* C1: in the persistent-storage fallback the number of entries returned
\* decides the outcome: none gives AdminNotFound, two or more give
\* MultipleAdminsFound whatever the entries are, and a single entry gives its
\* value when it decodes to contract data and AdminNotFound when it decodes
\* to another kind of ledger entry.
C1_PersistentLookupByCount ==
    EntriesReturned =>
        LET es == ledger_entries.entries.v
        IN  /\ Len(es) = 0 => pc = "done" /\ outcome = Err("AdminNotFound")
            /\ Len(es) >= 2 => pc = "done" /\ outcome = Err("MultipleAdminsFound")
            /\ (Len(es) = 1 /\ es[1].xdr = "ContractData") =>
                  /\ admin_val = es[1].val
                  /\ \/ pc = "decode"
                     \/ pc = "done" /\ outcome = Err("WrongStorageType")
            /\ (Len(es) = 1 /\ es[1].xdr = "Account") =>
                  pc = "done" /\ outcome = Err("AdminNotFound")

\* Two entries came back, the first of them a usable admin entry, and the
\* lookup failed with MultipleAdminsFound.
C1_Witness ==
    /\ EntriesReturned
    /\ Len(ledger_entries.entries.v) = 2
    /\ ledger_entries.entries.v[1] = [xdr |-> "ContractData", val |-> ScAddressAccount(Me)]
    /\ outcome = Err("MultipleAdminsFound")

\* check_if_centralized has answered for the AccountData held in body.
SignerStageDone ==
    \/ pc = "is_hot_wallet"
    \/ pc = "done" /\ calls # <<>> /\ calls[Len(calls)] = Call("account", "-", "ok")

MaxWeight ==
    IF body.signers = <<>> THEN 0
    ELSE CHOOSE m \in 0..255 :
           /\ \E i \in 1..Len(body.signers) : body.signers[i] = m
           /\ \A i \in 1..Len(body.signers) : body.signers[i] <= m

\* C2: the signer stage answers Deactivated when the largest weight is 0 (an
\* empty list included), otherwise HotWallet exactly when the largest weight
\* is at least lowThreshold; the multisig path (a Multisig answer or an
\* overflow abort) is taken only when 0 < maxWeight < lowThreshold.
C2_SignerStage ==
    SignerStageDone =>
        /\ MaxWeight = 0 => account_type = Ok(Deactivated)
        /\ MaxWeight > 0 =>
              (account_type = Ok(HotWallet) <=> MaxWeight >= body.low_threshold)
        /\ (account_type.kind = "panic" \/ account_type.val.t = "Multisig") =>
              (0 < MaxWeight /\ MaxWeight < body.low_threshold)

\* The only signer weighs exactly the threshold: tentative HotWallet.
C2_Witness ==
    /\ pc = "is_hot_wallet"
    /\ body = [signers |-> <<5>>, low_threshold |-> 5]
    /\ account_type = Ok(HotWallet)

RECURSIVE SumFirst(_, _)
SumFirst(ws, i) == IF i = 0 THEN 0 ELSE ws[i] + SumFirst(ws, i - 1)

\* C3: on the multisig path the answer is Multisig(i, totalSigners) for the
\* least i whose i largest weights sum, as integers, to lowThreshold or more,
\* and Deactivated only when all weights together stay below lowThreshold.
C3_MultisigTrueSum ==
    (SignerStageDone /\ 0 < MaxWeight /\ MaxWeight < body.low_threshold) =>
        LET sorted == SortDesc(body.signers)
            total == Cardinality({i \in 1..Len(sorted) : sorted[i] > 0})
            enough == {i \in 1..total : SumFirst(sorted, i) >= body.low_threshold}
        IN  IF enough = {}
            THEN account_type = Ok(Deactivated)
            ELSE account_type =
                   Ok(Multisig(CHOOSE i \in enough : \A j \in enough : i <= j, total))

\* The final verdict of is_hot_wallet for a tentative HotWallet.
GapReported == pc = "done" /\ min_ledger_diff.kind = "ok"

TransactionsCalls == {i \in 1..Len(calls) : calls[i].op = "transactions"}

\* C4: a tentative HotWallet ends as HotWallet exactly when the reported
\* minimum gap is at most 12, and as MPC when it is larger or is the
\* unbounded sentinel (fewer than two records); any other signer-stage answer
\* is the final answer and no transaction page is requested for it.
C4_FrequencyStage ==
    /\ GapReported =>
          /\ account_type = Ok(HotWallet)
          /\ outcome = Ok(IF min_ledger_diff.val \in 0..12 THEN HotWallet ELSE MPC)
          /\ Len(results) < 2 => outcome = Ok(MPC)
    /\ (account_type.kind = "ok" /\ account_type.val.t # "HotWallet") =>
          /\ TransactionsCalls = {}
          /\ pc = "done" => outcome = account_type
    /\ TransactionsCalls # {} => account_type = Ok(HotWallet)
    /\ (pc = "done" /\ outcome.kind = "ok" /\ outcome.val.t \in {"HotWallet", "MPC"}) =>
          GapReported

\* Two signed transactions twelve ledgers apart: the verdict stays HotWallet.
C4_Witness ==
    /\ GapReported
    /\ results = <<Tx260, Tx272>>
    /\ min_ledger_diff = Ok(12)
    /\ outcome = Ok(HotWallet)

RECURSIVE Flatten(_)
Flatten(pages) == IF pages = <<>> THEN <<>> ELSE pages[1] \o Flatten(Tail(pages))

\* Every record Horizon returned, in the order received.
Received == Flatten(fetched)

\* rs is in ascending ledger order, the ledgers compared as u64.
Ascending(rs) == \A i \in 1..(Len(rs) - 1) : U64Le(rs[i].ledger, rs[i + 1].ledger)

\* The received records in which the analysed address is source or fee payer.
Involving == SelectSeq(Received, LAMBDA r : r.source_account = address_type.id
                                           \/ r.fee_account = address_type.id)

\* Involving with every run of equal paging tokens reduced to its first record.
InvolvingOnce ==
    LET inv == Involving
        tagged == [i \in 1..Len(inv) |->
                     [rec |-> inv[i],
                      first |-> IF i = 1 THEN TRUE
                                ELSE inv[i].paging_token # inv[i - 1].paging_token]]
        firsts == SelectSeq(tagged, LAMBDA x : x.first)
    IN  [k \in 1..Len(firsts) |-> firsts[k].rec]

\* The least gap between neighbours of an ascending list.  The gap from a to
\* b >= a is the residue b - a; the gaps are ordered as u64.
MinGap(rs) ==
    LET gaps == {rs[i + 1].ledger - rs[i].ledger : i \in 1..(Len(rs) - 1)}
    IN  CHOOSE g \in gaps : \A h \in gaps : U64Le(g, h)

GapOver(rs) == IF Len(rs) < 2 THEN Ok(U64Max) ELSE Ok(MinGap(rs))

\* C5 as stated: for records received in ascending ledger order the reported
\* gap is the least difference between neighbours among the records that
\* involve the address, and the sentinel exactly when fewer than two involve it.
C5_GapOverInvolving ==
    (GapReported /\ Ascending(Received)) =>
        /\ min_ledger_diff = GapOver(Involving)
        /\ min_ledger_diff = Ok(U64Max) <=> Len(Involving) < 2

\* Exactly two records are left, of ledger 0 and ledger u64::MAX: their gap
\* is the sentinel value itself.
WholeRangeGap(rs) == Len(rs) = 2 /\ rs[1].ledger = 0 /\ rs[2].ledger = U64Max

\* C5 amended: the same over the involving records after every run of equal
\* paging tokens is reduced to one record; the sentinel is reported when
\* fewer than two records are left then, and otherwise only for the two
\* records of ledger 0 and ledger u64::MAX.
C5_GapOverInvolvingOnce ==
    (GapReported /\ Ascending(Received)) =>
        /\ min_ledger_diff = GapOver(InvolvingOnce)
        /\ min_ledger_diff = Ok(U64Max) <=>
              (Len(InvolvingOnce) < 2 \/ WholeRangeGap(InvolvingOnce))

\* A full page of other accounts' transactions ends with Tx100 and Tx105;
\* the next page starts with Tx105 again: the gap is 105 - 100.
C5_Witness ==
    /\ GapReported
    /\ Ascending(Received)
    /\ Len(fetched) = 2
    /\ fetched[2] = <<Tx105, Tx260>>
    /\ results = <<Tx100, Tx105, Tx260>>
    /\ min_ledger_diff = Ok(5)

\* C6: the list get_all_txs_for_account returns holds no paging token twice.
C6_NoTokenTwice ==
    (pc = "done" /\ min_ledger_diff.kind # "none") =>
        Cardinality({results[i].paging_token : i \in 1..Len(results)}) = Len(results)

LastCall == calls[Len(calls)]

PageLoopShape ==
    /\ \A i \in 1..(Len(fetched) - 1) : Len(fetched[i]) = PageLimit
    /\ (fetched # <<>> /\ Len(fetched[Len(fetched)]) = PageLimit) =>
          \/ pc = "transactions"
          \/ /\ pc = "done"
             /\ LastCall.op = "transactions" /\ LastCall.status # "ok"
             /\ Cardinality(TransactionsCalls) = Len(fetched) + 1
    /\ (fetched # <<>> /\ Len(fetched[Len(fetched)]) < PageLimit) =>
          pc = "done" /\ Cardinality(TransactionsCalls) = Len(fetched)

\* C7: no page is requested after a page of fewer than 200 records, a page
\* of exactly 200 records is always followed by another request, and with a
\* finite history the run ends.
C7_PageLoop == []PageLoopShape /\ <>(pc = "done")

\* A full page was followed by a second request, whose short page ended the loop.
C7_Witness ==
    /\ pc = "done"
    /\ Len(fetched) = 2
    /\ Len(fetched[1]) = PageLimit
    /\ Len(fetched[2]) < PageLimit
    /\ Cardinality(TransactionsCalls) = 2

ErrorFor(op, status) ==
    CASE op = "get_contract_instance" -> "InstanceStorageFailure"
      [] op = "get_ledger_entries" -> "PersistentStorageFailure"
      [] status = "fetch_failed" -> "HorizonDataFetchFailure"
      [] status = "parse_failed" -> "HorizonDataParseFailure"

\* C8: a failed collaborator call is the last call of the run, and the run
\* ends with the error of that call and with no classification, whatever
\* pages were received before it.
C8_FailureIsTerminal ==
    \A i \in 1..Len(calls) :
        calls[i].status # "ok" =>
            /\ i = Len(calls)
            /\ pc = "done"
            /\ outcome = Err(ErrorFor(calls[i].op, calls[i].status))

\* The second page request failed after a full first page.
C8_Witness ==
    /\ Len(fetched) = 1
    /\ Len(calls) >= 2
    /\ LastCall = Call("transactions", "cursor_a", "parse_failed")
    /\ outcome = Err("HorizonDataParseFailure")

AccountTypeTags == {"Contract", "Multisig", "Deactivated", "HotWallet", "MPC"}

\* C9: every run ends with one of the five classifications or with a typed
\* error, never with an abort.
C9_ClassificationOrError ==
    pc = "done" =>
        \/ outcome.kind = "ok" /\ outcome.val.t \in AccountTypeTags
        \/ outcome.kind = "err"

IsAlphabetic(c) == c \in 65..90 \/ c \in 97..122

Lowercase(k) == [i \in 1..Len(k) |-> IF k[i] \in 65..90 THEN k[i] + 32 ELSE k[i]]
Uppercase(k) == [i \in 1..Len(k) |-> IF k[i] \in 97..122 THEN k[i] - 32 ELSE k[i]]
Capitalised(k) == [i \in 1..Len(k) |-> IF i = 1 THEN Uppercase(k)[i] ELSE Lowercase(k)[i]]

\* C10: for a non-empty alphabetic key the variant set has at most nine
\* elements, and fewer than nine exactly when two of the three case
\* transforms of the key are the same text.
C10_NineVariants ==
    (pc = "find_key" /\ key # <<>> /\ \A i \in 1..Len(key) : IsAlphabetic(key[i])) =>
        /\ Cardinality(keys) <= 9
        /\ Cardinality(keys) < 9 <=>
              \/ Lowercase(key) = Uppercase(key)
              \/ Lowercase(key) = Capitalised(key)
              \/ Uppercase(key) = Capitalised(key)

\* The one-letter key "a": upper case and capitalised agree, six variants.
C10_Witness ==
    /\ pc = "find_key"
    /\ key = <<97>>
    /\ Cardinality(keys) = 6

\* The Horizon (ledger-index) calls made so far.
HorizonCalls == {i \in 1..Len(calls) : calls[i].op \in {"account", "transactions"}}

\* What the step that leaves decode_admin_value did with the value it was given.
DecodedAs ==
    /\ admin_val.t # "Address" =>
          pc' = "done" /\ outcome' = Err("WrongStorageType")
    /\ (admin_val.t = "Address" /\ admin_val.kind = "Account") =>
          pc' = "main_match" /\ address_type' = EOA(admin_val.id)
    /\ (admin_val.t = "Address" /\ admin_val.kind = "Contract") =>
          pc' = "main_match" /\ address_type' = AddressContract

\* From a contract admin main goes straight to the Contract classification.
ContractAdminIsFinal ==
    address_type = AddressContract =>
        /\ pc \in {"main_match", "done"}
        /\ pc = "done" => outcome = Ok(Contract)
        /\ HorizonCalls = {}

\* C11: decode_admin_value fails with WrongStorageType for a value that is
\* not an address, returns EOA(account id) for an account address and
\* Contract for a contract address; once the resolved admin is a contract the
\* run ends with the classification Contract and no Horizon call is made.
C11_DecodeAdminValue ==
    /\ [][(pc = "decode" /\ pc' # "decode") => DecodedAs]_vars
    /\ []ContractAdminIsFinal

\* The persistent entry of a contract target held a contract address: the
\* run ended as Contract after the two RPC calls alone.
C11_Witness ==
    /\ pc = "done"
    /\ target.kind = "Contract"
    /\ address_type = AddressContract
    /\ outcome = Ok(Contract)
    /\ calls = <<Call("get_contract_instance", "-", "ok"),
                 Call("get_ledger_entries", "-", "ok")>>

\* The RPC calls made so far.
RpcCalls ==
    {i \in 1..Len(calls) : calls[i].op \in {"get_contract_instance", "get_ledger_entries"}}

InstanceFetched == calls # <<>> /\ calls[1] = Call("get_contract_instance", "-", "ok")

\* The batched persistent query has been issued: it is awaited or answered.
PersistentIssued ==
    \/ pc = "get_ledger_entries"
    \/ \E i \in 1..Len(calls) : calls[i].op = "get_ledger_entries"

\* find_key has fetched the instance and has not returned Ok yet, so the
\* entries it scanned are still held in instance_storage.
FindKeyScanned ==
    /\ InstanceFetched
    /\ \/ pc \in {"get_ledger_entries", "decode"}
       \/ pc = "done" /\ address_type = NoAddress

MatchingEntries == {i \in 1..Len(instance_storage) : instance_storage[i].key \in keys}

\* C12: an account target is returned as it is without any RPC call; for a
\* contract target the instance fetch is the first call, the value of the
\* first instance entry whose key is a variant is the admin value and no
\* persistent query follows it; the persistent query is issued exactly when
\* the instance fetch succeeded and no instance entry key is a variant.
C12_FindKeyOrder ==
    /\ target.kind = "Account" =>
          /\ RpcCalls = {} /\ ~PersistentIssued
          /\ address_type \in {NoAddress, EOA(target.id)}
          /\ pc \in {"main_match", "account", "is_hot_wallet", "transactions"} =>
                address_type = EOA(target.id)
    /\ \A i \in 1..Len(calls) :
          /\ calls[i].op = "get_contract_instance" => i = 1
          /\ calls[i].op = "get_ledger_entries" => i = 2
          /\ i > 1 => calls[1].status = "ok"
    /\ PersistentIssued => InstanceFetched
    /\ FindKeyScanned => (PersistentIssued <=> MatchingEntries = {})
    /\ (FindKeyScanned /\ MatchingEntries # {}) =>
          \E i \in MatchingEntries :
              /\ \A j \in MatchingEntries : i <= j
              /\ admin_val = instance_storage[i].val

\* Two instance entries carry variants of the key: the value of the first
\* was taken and the persistent query was not issued.
C12_Witness ==
    /\ pc = "decode"
    /\ calls = <<Call("get_contract_instance", "-", "ok")>>
    /\ instance_storage =
          <<[key |-> ScVecSymbol(str_to_ascii_uppercase(AdminKey)), val |-> ScU32(7)],
            [key |-> ScSymbol(AdminKey), val |-> ScAddressAccount(Me)]>>
    /\ admin_val = ScU32(7)

\* The page requests made so far, in order.
PageRequests == SelectSeq(calls, LAMBDA c : c.op = "transactions")

\* The first request goes to the base URL and the k-th to the next link of
\* page k - 1.
FollowsNextLink ==
    \A k \in 1..Len(PageRequests) :
        PageRequests[k].url = IF k = 1 THEN FirstPageUrl ELSE links[k - 1]

\* A request is made only when every earlier one has been answered with a page.
OneRequestAtATime ==
    /\ Len(links) = Len(fetched)
    /\ Len(PageRequests) \in {Len(fetched), Len(fetched) + 1}
    /\ \A k \in 1..(Len(PageRequests) - 1) : PageRequests[k].status = "ok"
    /\ pc = "transactions" => Len(PageRequests) = Len(fetched)

NoUrlTwice ==
    \A j, k \in 1..Len(PageRequests) : j # k => PageRequests[j].url # PageRequests[k].url

\* C13 as stated: the first request goes to the base URL, every later one to
\* the next link of the page before it, one at a time, and no cursor is
\* requested twice.
C13_NoCursorTwice == FollowsNextLink /\ OneRequestAtATime /\ NoUrlTwice

\* The next links of the pages of 200 records: the links the loop follows.
FollowedLinks ==
    SelectSeq([k \in 1..Len(links) |-> [href |-> links[k], full |-> Len(fetched[k]) = PageLimit]],
              LAMBDA x : x.full)

\* Horizon gave a page of 200 records a next link that is the base URL or the
\* next link of an earlier page of 200 records.
LinkRepeated ==
    \/ \E k \in 1..Len(FollowedLinks) : FollowedLinks[k].href = FirstPageUrl
    \/ \E j, k \in 1..Len(FollowedLinks) :
          j # k /\ FollowedLinks[j].href = FollowedLinks[k].href

\* Every followed link has been requested.
AllFollowed == Len(PageRequests) = Len(FollowedLinks) + 1

\* C13 amended: the first request goes to the base URL, every later one to
\* the next link of the page before it, one at a time; once every link of a
\* full page has been followed, a URL has been requested twice exactly when
\* Horizon returned the base URL or an earlier link again with a full page.
C13_FollowsNextLink ==
    /\ FollowsNextLink
    /\ OneRequestAtATime
    /\ AllFollowed => (NoUrlTwice <=> ~LinkRepeated)

\* Three requests: the base URL, then the link of the first full page, then
\* the different link of the second; no URL was asked twice.
C13_Witness ==
    /\ pc = "done"
    /\ Len(fetched) = 3
    /\ Len(fetched[3]) < PageLimit
    /\ links[1] = "cursor_a" /\ links[2] = "cursor_b"
    /\ [k \in 1..3 |-> PageRequests[k].url] = <<FirstPageUrl, "cursor_a", "cursor_b">>
    /\ ~LinkRepeated /\ NoUrlTwice

====
